---- MODULE Spec2Model ----
(***************************************************************************)
(* Model of the Cluster API driver of magnum                               *)
(* (magnum/drivers/cluster_api/driver.py): the status reconciler           *)
(* update_cluster_status, the resource inspector _get_cluster_status /     *)
(* _get_resource, the lifecycle operations create/update/delete_cluster    *)
(* and the unsupported operations.  The external world (the kubectl tool   *)
(* run through utils.execute, the azimuth operator that fills in the       *)
(* resource's status, and the conductor that arms an *_IN_PROGRESS status) *)
(* is the environment of the driver.                                       *)
(***************************************************************************)
EXTENDS Integers, Sequences, FiniteSets

(* ---------------------------------------------------------------------- *)
(* Bounds                                                                  *)
(* ---------------------------------------------------------------------- *)

\* number of distinct cluster configurations (rendered "spec" values)
MaxSpec == 2

\* the cluster records handled by the driver, and the ones the scheduler
\* sweeps in Spec
Clusters == {"A", "B"}
Swept == {"A"}

(* ---------------------------------------------------------------------- *)
(* Vocabulary                                                              *)
(* ---------------------------------------------------------------------- *)

\* driver.ClusterStatus: the observed state of the external resource
READY == "READY"
PENDING == "PENDING"
ERROR == "ERROR"
NOT_FOUND == "NOT_FOUND"
ClusterStatus == {READY, PENDING, ERROR, NOT_FOUND}

\* fields.ClusterStatus: the persisted lifecycle states
CREATE_IN_PROGRESS == "CREATE_IN_PROGRESS"
CREATE_COMPLETE == "CREATE_COMPLETE"
CREATE_FAILED == "CREATE_FAILED"
UPDATE_IN_PROGRESS == "UPDATE_IN_PROGRESS"
UPDATE_COMPLETE == "UPDATE_COMPLETE"
UPDATE_FAILED == "UPDATE_FAILED"
DELETE_IN_PROGRESS == "DELETE_IN_PROGRESS"
DELETE_COMPLETE == "DELETE_COMPLETE"
DELETE_FAILED == "DELETE_FAILED"
LifecycleStatus ==
    {CREATE_IN_PROGRESS, CREATE_COMPLETE, CREATE_FAILED,
     UPDATE_IN_PROGRESS, UPDATE_COMPLETE, UPDATE_FAILED,
     DELETE_IN_PROGRESS, DELETE_COMPLETE, DELETE_FAILED}
InProgress == {CREATE_IN_PROGRESS, UPDATE_IN_PROGRESS, DELETE_IN_PROGRESS}
Terminal == LifecycleStatus \ InProgress

\* status_reason of a record the driver has not written yet (None)
NoReason == "<none>"

\* values that stand for a missing key of the resource's JSON
NoStatus == "<no status>"
NoPhase == "<no phase>"

\* status.phase as the operator reports it ("" is an empty phase)
Phases == {"Ready", "Failed", "Unhealthy", "Reconciling"}
PhaseField == {NoStatus, NoPhase, ""} \cup Phases

Specs == 1..MaxSpec

\* json.dumps / json.loads of a spec: the annotation holds the text of the
\* spec, the comparison is made on the parsed value
json_dumps(s) == <<"json", s>>
json_loads(str) == str[2]
\* a resource without the last-handled-configuration annotation
NoAnnotation == <<"none">>
AnnotationField == {NoAnnotation} \cup {json_dumps(s) : s \in Specs}
\* last_handled_spec = None
NoneSpec == 0

\* the external resource "cluster.azimuth.stackhpc.com/<uuid>"
Absent == [kind |-> "absent"]
Resource ==
    [kind : {"cluster"}, phase : PhaseField, spec : Specs,
     annotation : AnnotationField]
\* the empty JSON document "{}"
EmptyDoc == [kind |-> "empty"]

\* exceptions that reach the caller of the driver
NoException == "none"
ProcessExecutionError == "ProcessExecutionError"
TemplateError == "TemplateError"
PlainException == "Exception"
NotImplementedErrorExc == "NotImplementedError"

VARIABLES
    status,         \* cluster.status, per cluster record
    status_reason,  \* cluster.status_reason, per cluster record
    stack_id,       \* cluster.stack_id, per cluster record
    external,       \* the external resource of each cluster (in
                    \* ServiceSpec: the service record of each identifier)
    last            \* what the last call of the driver did (in ParSpec:
                    \* for each cluster, the call running or last
                    \* finished on it; in ServiceSpec: what the last
                    \* request to the ServicesController did)

vars == <<status, status_reason, stack_id, external, last>>

(* ---------------------------------------------------------------------- *)
(* utils.execute and the kubectl tool                                      *)
(* ---------------------------------------------------------------------- *)

\* a result of the external tool: exit code, parsed stdout, stderr marker
Ok(doc) == [rc |-> 0, stdout |-> doc, stderr |-> ""]
NotFoundFailure == [rc |-> 1, stdout |-> EmptyDoc, stderr |-> "not found"]
ToolFailure == [rc |-> 2, stdout |-> EmptyDoc, stderr |-> "error"]

\* utils.execute raises on a non-zero exit code
execute_raises(result) == result.rc # 0

\* "kubectl get <type> <name> -o json": the object when it exists; when it
\* does not, exit code 1 with a not-found message, or a tool that prints an
\* empty document; any call may fail for another reason
kubectl_get(res) ==
    IF res = Absent
    THEN {NotFoundFailure, Ok(EmptyDoc), ToolFailure}
    ELSE {Ok(res), ToolFailure}

\* the value of --ignore-not-found the driver passes to "kubectl delete"
IgnoreNotFound == FALSE

\* "kubectl delete --ignore-not-found=<flag> -f -"
kubectl_delete(res, flag) ==
    IF res = Absent
    THEN (IF flag THEN {Ok(EmptyDoc)} ELSE {NotFoundFailure}) \cup {ToolFailure}
    ELSE {Ok(EmptyDoc), ToolFailure}

\* "kubectl apply -f -"
kubectl_apply(res) == {Ok(EmptyDoc), ToolFailure}

(* ---------------------------------------------------------------------- *)
(* Resource inspector                                                      *)
(* ---------------------------------------------------------------------- *)

\* Python truthiness of the parsed document / of a string field
falsy_doc(doc) == doc = EmptyDoc
falsy_str(s) == s \in {NoStatus, NoPhase, ""}
falsy_annotation(a) == a = NoAnnotation

\* the observed state of a parsed document
get_cluster_status_no_phase_not_found(resource) ==
    IF falsy_doc(resource) \/ falsy_str(resource.phase) THEN NOT_FOUND
    ELSE LET last_handled_str == resource.annotation
             last_handled_spec ==
                 IF ~falsy_annotation(last_handled_str)
                 THEN json_loads(last_handled_str) ELSE NoneSpec
         IN IF last_handled_spec # resource.spec THEN PENDING
            ELSE IF resource.phase = "Ready" THEN READY
            ELSE IF resource.phase = "Failed" \/ resource.phase = "Unhealthy"
                 THEN ERROR
            ELSE PENDING

get_cluster_status_stale_ignored(resource) ==
    IF falsy_doc(resource) THEN NOT_FOUND
    ELSE IF falsy_str(resource.phase) THEN PENDING
    ELSE IF resource.phase = "Ready" THEN READY
    ELSE IF resource.phase \in {"Failed", "Unhealthy"} THEN ERROR
    ELSE PENDING

get_cluster_status_unhealthy_pending(resource) ==
    IF falsy_doc(resource) THEN NOT_FOUND
    ELSE IF falsy_str(resource.phase) THEN PENDING
    ELSE LET last_handled_str == resource.annotation
             last_handled_spec ==
                 IF ~falsy_annotation(last_handled_str)
                 THEN json_loads(last_handled_str) ELSE NoneSpec
         IN IF last_handled_spec # resource.spec THEN PENDING
            ELSE IF resource.phase = "Ready" THEN READY
            ELSE IF resource.phase = "Failed" THEN ERROR
            ELSE PENDING

get_cluster_status_ready_pending(resource) ==
    IF falsy_doc(resource) THEN NOT_FOUND
    ELSE IF falsy_str(resource.phase) THEN PENDING
    ELSE LET last_handled_str == resource.annotation
             last_handled_spec ==
                 IF ~falsy_annotation(last_handled_str)
                 THEN json_loads(last_handled_str) ELSE NoneSpec
         IN IF last_handled_spec # resource.spec THEN PENDING
            ELSE IF resource.phase = "Failed" \/ resource.phase = "Unhealthy"
                 THEN ERROR
            ELSE PENDING

get_cluster_status(resource) ==
    IF falsy_doc(resource) THEN NOT_FOUND
    ELSE IF falsy_str(resource.phase) THEN PENDING
    ELSE LET last_handled_str == resource.annotation
             last_handled_spec ==
                 IF ~falsy_annotation(last_handled_str)
                 THEN json_loads(last_handled_str) ELSE NoneSpec
         IN IF last_handled_spec # resource.spec THEN PENDING
            ELSE IF resource.phase = "Ready" THEN READY
            ELSE IF resource.phase = "Failed" \/ resource.phase = "Unhealthy"
                 THEN ERROR
            ELSE PENDING

(* ---------------------------------------------------------------------- *)
(* Status reconciler                                                       *)
(* ---------------------------------------------------------------------- *)

\* the cluster object during one pass: its fields and the calls of save()
Obj(st, rs) == [status |-> st, reason |-> rs, saves |-> 0]

\* one "if cond: status = ..; status_reason = ..; save()" block
SetAndSave(obj, cond, st, rs) ==
    IF cond
    THEN [status |-> st, reason |-> rs, saves |-> obj.saves + 1]
    ELSE obj

create_branch_wrong_ready(obj, k8s_status) ==
    SetAndSave(
        SetAndSave(obj, k8s_status = READY,
                   CREATE_FAILED, "cluster is ready"),
        k8s_status = ERROR, CREATE_FAILED, "cluster is in error state")

create_branch_double_save(obj, k8s_status) ==
    SetAndSave(
        SetAndSave(obj, k8s_status = READY,
                   CREATE_COMPLETE, "cluster is ready"),
        k8s_status \in {READY, ERROR},
        CREATE_FAILED, "cluster is in error state")

create_branch(obj, k8s_status) ==
    SetAndSave(
        SetAndSave(obj, k8s_status = READY,
                   CREATE_COMPLETE, "cluster is ready"),
        k8s_status = ERROR, CREATE_FAILED, "cluster is in error state")

update_branch_no_save(obj, k8s_status) ==
    LET r == SetAndSave(
                 SetAndSave(obj, k8s_status = READY,
                            UPDATE_COMPLETE, "cluster is ready"),
                 k8s_status = ERROR, UPDATE_FAILED, "cluster is in error state")
    IN [r EXCEPT !.saves = 0]

update_branch(obj, k8s_status) ==
    SetAndSave(
        SetAndSave(obj, k8s_status = READY,
                   UPDATE_COMPLETE, "cluster is ready"),
        k8s_status = ERROR, UPDATE_FAILED, "cluster is in error state")

delete_branch_pending_completes(obj, k8s_status) ==
    SetAndSave(
        SetAndSave(obj, k8s_status \in {NOT_FOUND, PENDING},
                   DELETE_COMPLETE, "cluster is not found"),
        k8s_status = ERROR, CREATE_FAILED, "cluster is in error state")

delete_branch(obj, k8s_status) ==
    SetAndSave(
        SetAndSave(obj, k8s_status = NOT_FOUND,
                   DELETE_COMPLETE, "cluster is not found"),
        k8s_status = ERROR, CREATE_FAILED, "cluster is in error state")

fallback_repeated_reason(obj, k8s_status) ==
    SetAndSave(obj, TRUE, UPDATE_FAILED,
               IF obj.reason = "unexpected state!"
               THEN "still in unexpected state!" ELSE "unexpected state!")

fallback_keeps_status(obj, k8s_status) ==
    SetAndSave(obj, TRUE, obj.status, "unexpected state!")

fallback_create_failed(obj, k8s_status) ==
    SetAndSave(obj, TRUE, CREATE_FAILED, "unexpected state!")

fallback(obj, k8s_status) ==
    SetAndSave(obj, TRUE, UPDATE_FAILED, "unexpected state!")

\* the body of update_cluster_status once k8s_status is known
reconcile(previous_state, reason, k8s_status) ==
    LET obj == Obj(previous_state, reason)
    IN IF previous_state = CREATE_IN_PROGRESS
       THEN create_branch(obj, k8s_status)
       ELSE IF previous_state = UPDATE_IN_PROGRESS
       THEN update_branch(obj, k8s_status)
       ELSE IF previous_state = DELETE_IN_PROGRESS
       THEN delete_branch(obj, k8s_status)
       ELSE fallback(obj, k8s_status)

(* ---------------------------------------------------------------------- *)
(* The record of the last call                                             *)
(* ---------------------------------------------------------------------- *)

NoCall ==
    [op |-> "none", cluster |-> "-", prev |-> "-", prev_reason |-> "-",
     found |-> "-", tool |-> "-", observed |-> "-", saves |-> 0,
     commands |-> 0, stdin |-> <<>>, raised |-> NoException,
     returned |-> "None"]

\* op: the operation; cluster: its cluster; prev, prev_reason: the status
\* and status_reason it started with; found: whether the external resource
\* existed; tool: how the external command ended; observed: k8s_status;
\* saves: calls of cluster.save(); commands: external commands run;
\* stdin: the text fed to the command; raised: the exception that reached
\* the caller; returned: the value returned
Call(op, c, tool, observed, saves, commands, stdin, raised) ==
    [op |-> op, cluster |-> c,
     prev |-> status[c], prev_reason |-> status_reason[c],
     found |-> IF external[c] = Absent THEN "absent" ELSE "present",
     tool |-> tool, observed |-> observed, saves |-> saves,
     commands |-> commands, stdin |-> stdin, raised |-> raised,
     returned |-> "None"]

\* how a tool result shows in the record of the call
ToolKind(result) ==
    IF result.rc = 0 THEN "ok"
    ELSE IF result.rc = 1 /\ result.stderr = "not found" THEN "not found"
    ELSE "failure"

(* ---------------------------------------------------------------------- *)
(* Init                                                                    *)
(* ---------------------------------------------------------------------- *)

Init ==
    /\ \E s \in LifecycleStatus :
           status = [c \in Clusters |->
                        IF c \in Swept THEN s ELSE CREATE_IN_PROGRESS]
    /\ status_reason = [c \in Clusters |-> NoReason]
    /\ stack_id = [c \in Clusters |-> "stack"]
    /\ external = [c \in Clusters |-> Absent]
    /\ last = NoCall

(* ---------------------------------------------------------------------- *)
(* Driver operations                                                       *)
(* ---------------------------------------------------------------------- *)

\* _get_resource: the parsed stdout, or the exception of utils.execute
get_resource_raises(result) == execute_raises(result)

update_cluster_status(c) ==
    \E result \in kubectl_get(external[c]) :
        IF get_resource_raises(result)
        THEN /\ last' = Call("update_cluster_status", c, ToolKind(result),
                             "-", 0, 1, <<>>, ProcessExecutionError)
             /\ UNCHANGED <<status, status_reason, stack_id, external>>
        ELSE LET k8s_status == get_cluster_status(result.stdout)
                 r == reconcile(status[c], status_reason[c], k8s_status)
             IN /\ status' = [status EXCEPT ![c] = r.status]
                /\ status_reason' = [status_reason EXCEPT ![c] = r.reason]
                /\ last' = Call("update_cluster_status", c, ToolKind(result),
                                k8s_status, r.saves, 1, <<>>, NoException)
                /\ UNCHANGED <<stack_id, external>>


\* the cluster template of the clusters: Kubernetes version and image
ClusterTemplate == [kube_tag |-> "v1.24.3", image |-> "ubuntu"]

\* the control plane of the clusters
MasterFlavor == "flavor_small"
MasterCount == 3

\* the node groups of a cluster in configuration spec: spec groups, each
\* with its own flavor and machine count
NodeGroupsOf(spec) ==
    [i \in 1..spec |->
        [name |-> i, flavor |-> <<"flavor", i>>, count |-> i + MasterCount]]

\* clustertemplate.yaml.jinja2 rendered with template=cluster_template
render_template(template) ==
    [doc |-> "clustertemplate", kubernetesVersion |-> template.kube_tag,
     machineImage |-> template.image]

\* cluster.yaml.jinja2 rendered with the cluster: a control-plane block and
\* a block for each node group
render_cluster(c, spec) ==
    LET groups == NodeGroupsOf(spec)
    IN [doc |-> "cluster", name |-> c, spec |-> spec,
        controlPlane |-> [machineFlavor |-> MasterFlavor,
                          machineCount |-> MasterCount],
        nodeGroups |-> [i \in 1..Len(groups) |->
                           [name |-> groups[i].name,
                            machineFlavor |-> groups[i].flavor,
                            machineCount |-> groups[i].count]]]

\* the "\n" between the two documents
Separator == [doc |-> "\n"]

generate_resources_template_last(c, spec, cluster_template) ==
    LET output == IF cluster_template
                  THEN <<Separator, render_template(ClusterTemplate)>>
                  ELSE <<>>
    IN <<render_cluster(c, spec)>> \o output

generate_resources_always_template(c, spec, cluster_template) ==
    <<render_template(ClusterTemplate), Separator, render_cluster(c, spec)>>

generate_resources_never_template(c, spec, cluster_template) ==
    <<render_cluster(c, spec)>>

\* _generate_resources: the template document and a newline first when a
\* cluster template is given, then the cluster document
generate_resources(c, spec, cluster_template) ==
    LET output == IF cluster_template
                  THEN <<render_template(ClusterTemplate), Separator>>
                  ELSE <<>>
    IN output \o <<render_cluster(c, spec)>>

\* what "kubectl apply" of the cluster document leaves behind: a new
\* resource has no status and no annotation, an existing one gets the spec
applied(res, spec) ==
    IF res = Absent
    THEN [kind |-> "cluster", phase |-> NoStatus, spec |-> spec,
          annotation |-> NoAnnotation]
    ELSE [res EXCEPT !.spec = spec]

render_and_apply_retries(op, c, spec, render_ok) ==
    LET resources == generate_resources(c, spec, TRUE)
    IN IF ~render_ok
       THEN /\ last' = Call(op, c, "-", "-", 0, 0, <<>>, TemplateError)
            /\ UNCHANGED <<status, status_reason, external>>
       ELSE \E result \in kubectl_apply(external[c]) :
                /\ last' = Call(op, c, ToolKind(result), "-", 0,
                                IF execute_raises(result) THEN 2 ELSE 1,
                                resources,
                                IF execute_raises(result)
                                THEN ProcessExecutionError ELSE NoException)
                /\ external' =
                       IF execute_raises(result) THEN external
                       ELSE [external EXCEPT ![c] = applied(external[c], spec)]
                /\ UNCHANGED <<status, status_reason>>

\* _generate_resources followed by _apply_resources; spec is the
\* configuration of the cluster object, render_ok whether jinja2 renders it
render_and_apply(op, c, spec, render_ok) ==
    LET resources == generate_resources(c, spec, TRUE)
    IN IF ~render_ok
       THEN /\ last' = Call(op, c, "-", "-", 0, 0, <<>>, TemplateError)
            /\ UNCHANGED <<status, status_reason, external>>
       ELSE \E result \in kubectl_apply(external[c]) :
                /\ last' = Call(op, c, ToolKind(result), "-", 0, 1, resources,
                                IF execute_raises(result)
                                THEN ProcessExecutionError ELSE NoException)
                /\ external' =
                       IF execute_raises(result) THEN external
                       ELSE [external EXCEPT ![c] = applied(external[c], spec)]
                /\ UNCHANGED <<status, status_reason>>

create_cluster_keeps_stack_id(c) ==
    \E spec \in Specs, render_ok \in BOOLEAN :
        /\ render_and_apply("create_cluster", c, spec, render_ok)
        /\ UNCHANGED stack_id

create_cluster(c) ==
    \E spec \in Specs, render_ok \in BOOLEAN :
        /\ stack_id' = [stack_id EXCEPT ![c] = "None"]
        /\ render_and_apply("create_cluster", c, spec, render_ok)

update_cluster(c) ==
    \E spec \in Specs, render_ok \in BOOLEAN :
        /\ render_and_apply("update_cluster", c, spec, render_ok)
        /\ UNCHANGED stack_id

\* _delete_resources: the command line of "kubectl delete"
delete_resources_flag == IgnoreNotFound

delete_cluster_records_completion(c) ==
    \E spec \in Specs, render_ok \in BOOLEAN :
        LET resources == generate_resources(c, spec, FALSE)
        IN IF ~render_ok
           THEN /\ last' = Call("delete_cluster", c, "-", "-", 0, 0, <<>>,
                                TemplateError)
                /\ UNCHANGED <<status, status_reason, stack_id, external>>
           ELSE \E result \in
                       kubectl_delete(external[c], delete_resources_flag) :
                    /\ last' = Call("delete_cluster", c, ToolKind(result),
                                    "-",
                                    IF execute_raises(result) THEN 0 ELSE 1,
                                    1, resources,
                                    IF execute_raises(result)
                                    THEN ProcessExecutionError
                                    ELSE NoException)
                    /\ external' =
                           IF execute_raises(result) THEN external
                           ELSE [external EXCEPT ![c] = Absent]
                    /\ status' =
                           IF execute_raises(result) THEN status
                           ELSE [status EXCEPT ![c] = DELETE_COMPLETE]
                    /\ UNCHANGED <<status_reason, stack_id>>

delete_cluster(c) ==
    \E spec \in Specs, render_ok \in BOOLEAN :
        LET resources == generate_resources(c, spec, FALSE)
        IN /\ IF ~render_ok
              THEN /\ last' = Call("delete_cluster", c, "-", "-", 0, 0, <<>>,
                                   TemplateError)
                   /\ UNCHANGED external
              ELSE \E result \in
                          kubectl_delete(external[c], delete_resources_flag) :
                       /\ last' = Call("delete_cluster", c, ToolKind(result),
                                       "-", 0, 1, resources,
                                       IF execute_raises(result)
                                       THEN ProcessExecutionError
                                       ELSE NoException)
                       /\ external' =
                              IF execute_raises(result) THEN external
                              ELSE [external EXCEPT ![c] = Absent]
           /\ UNCHANGED <<status, status_reason, stack_id>>

(* ---------------------------------------------------------------------- *)
(* Unsupported operations                                                  *)
(* ---------------------------------------------------------------------- *)

UnsupportedOps ==
    {"resize_cluster", "upgrade_cluster", "create_nodegroup",
     "update_nodegroup", "delete_nodegroup", "create_federation",
     "update_federation", "delete_federation"}

\* how each unsupported operation ends: the exception it raises and the
\* value it returns
unsupported_outcome(op) ==
    CASE op = "resize_cluster" ->
             [raised |-> PlainException, returned |-> "None"]
      [] op = "upgrade_cluster" ->
             [raised |-> NotImplementedErrorExc, returned |-> "None"]
      [] op \in {"create_nodegroup", "update_nodegroup", "delete_nodegroup"} ->
             [raised |-> PlainException, returned |-> "None"]
      [] op \in {"create_federation", "update_federation",
                 "delete_federation"} ->
             [raised |-> NoException, returned |-> NotImplementedErrorExc]

unsupported(op, c) ==
    LET o == unsupported_outcome(op)
    IN /\ last' = [Call(op, c, "-", "-", 0, 0, <<>>, o.raised)
                      EXCEPT !.returned = o.returned]
       /\ UNCHANGED <<status, status_reason, stack_id, external>>

\* the federation operations take no cluster
unsupported_federation(op) ==
    LET o == unsupported_outcome(op)
    IN /\ last' = [NoCall EXCEPT !.op = op, !.raised = o.raised,
                                 !.returned = o.returned]
       /\ UNCHANGED <<status, status_reason, stack_id, external>>

resize_cluster(c) == unsupported("resize_cluster", c)
upgrade_cluster(c) == unsupported("upgrade_cluster", c)
create_nodegroup(c) == unsupported("create_nodegroup", c)
update_nodegroup(c) == unsupported("update_nodegroup", c)
delete_nodegroup(c) == unsupported("delete_nodegroup", c)
create_federation == unsupported_federation("create_federation")
update_federation == unsupported_federation("update_federation")
delete_federation == unsupported_federation("delete_federation")

(* ---------------------------------------------------------------------- *)
(* Environment                                                             *)
(* ---------------------------------------------------------------------- *)

\* the caller of the lifecycle operations arms an *_IN_PROGRESS status on
\* the record before it calls the driver; it may clear the reason
conductor_set_status(c) ==
    \E s \in InProgress, rs \in {NoReason, status_reason[c]} :
        /\ status' = [status EXCEPT ![c] = s]
        /\ status_reason' = [status_reason EXCEPT ![c] = rs]
        /\ last' = [NoCall EXCEPT !.op = "conductor_set_status",
                                  !.cluster = c]
        /\ UNCHANGED <<stack_id, external>>

\* the operator handles the current spec of the resource: it records the
\* spec in the last-handled-configuration annotation and reports a phase
operator_reconcile(c) ==
    /\ external[c] # Absent
    /\ \E p \in PhaseField \ {NoStatus} :
           external' = [external EXCEPT
                           ![c] = [kind |-> "cluster", phase |-> p,
                                   spec |-> external[c].spec,
                                   annotation |->
                                       json_dumps(external[c].spec)]]
    /\ last' = [NoCall EXCEPT !.op = "operator_reconcile", !.cluster = c]
    /\ UNCHANGED <<status, status_reason, stack_id>>

(* ---------------------------------------------------------------------- *)
(* Specification                                                           *)
(* ---------------------------------------------------------------------- *)

Next ==
    \/ \E c \in Swept : update_cluster_status(c)
    \/ \E c \in Swept : create_cluster(c)
    \/ \E c \in Swept : update_cluster(c)
    \/ \E c \in Swept : delete_cluster(c)
    \/ \E c \in Swept : resize_cluster(c)
    \/ \E c \in Swept : upgrade_cluster(c)
    \/ \E c \in Swept : create_nodegroup(c)
    \/ \E c \in Swept : update_nodegroup(c)
    \/ \E c \in Swept : delete_nodegroup(c)
    \/ create_federation
    \/ update_federation
    \/ delete_federation
    \/ \E c \in Swept : conductor_set_status(c)
    \/ \E c \in Swept : operator_reconcile(c)

Spec == Init /\ [][Next]_vars

\* the scheduler keeps running reconciliation passes on every cluster
FairSpec ==
    Init /\ [][Next]_vars /\ \A c \in Swept : WF_vars(update_cluster_status(c))

(* ---------------------------------------------------------------------- *)
(* Properties of the status reconciler                                     *)
(* ---------------------------------------------------------------------- *)

\* the last call was a reconciliation pass that got as far as k8s_status
Pass == last.op = "update_cluster_status" /\ last.raised = NoException

CompleteOf(s) ==
    CASE s = CREATE_IN_PROGRESS -> CREATE_COMPLETE
      [] s = UPDATE_IN_PROGRESS -> UPDATE_COMPLETE
      [] s = DELETE_IN_PROGRESS -> DELETE_COMPLETE

FailedOf(s) ==
    CASE s = CREATE_IN_PROGRESS -> CREATE_FAILED
      [] s = UPDATE_IN_PROGRESS -> UPDATE_FAILED
      [] s = DELETE_IN_PROGRESS -> DELETE_FAILED

\* C1: a pass on a cluster in CREATE_IN_PROGRESS or UPDATE_IN_PROGRESS that
\* observes READY ends with CREATE_COMPLETE resp. UPDATE_COMPLETE, reason
\* "cluster is ready", and exactly one save.
C1_ReadyCompletes ==
    (Pass /\ last.prev \in {CREATE_IN_PROGRESS, UPDATE_IN_PROGRESS}
          /\ last.observed = READY)
    => /\ status[last.cluster] = CompleteOf(last.prev)
       /\ status_reason[last.cluster] = "cluster is ready"
       /\ last.saves = 1

C1_Witness ==
    /\ Pass /\ last.prev = CREATE_IN_PROGRESS /\ last.observed = READY
    /\ status[last.cluster] = CREATE_COMPLETE
    /\ last.saves = 1

\* C2: a pass on a cluster in CREATE_IN_PROGRESS or UPDATE_IN_PROGRESS that
\* observes ERROR ends with CREATE_FAILED resp. UPDATE_FAILED, reason
\* "cluster is in error state", and exactly one save.
C2_ErrorFails ==
    (Pass /\ last.prev \in {CREATE_IN_PROGRESS, UPDATE_IN_PROGRESS}
          /\ last.observed = ERROR)
    => /\ status[last.cluster] = FailedOf(last.prev)
       /\ status_reason[last.cluster] = "cluster is in error state"
       /\ last.saves = 1

C2_Witness ==
    /\ Pass /\ last.prev = UPDATE_IN_PROGRESS /\ last.observed = ERROR
    /\ status[last.cluster] = UPDATE_FAILED
    /\ last.saves = 1

\* C3: a pass on a cluster in DELETE_IN_PROGRESS that observes NOT_FOUND
\* sets DELETE_COMPLETE with reason exactly "cluster deleted" and saves
\* once.
C3_DeleteCompletes ==
    (Pass /\ last.prev = DELETE_IN_PROGRESS /\ last.observed = NOT_FOUND)
    => /\ status[last.cluster] = DELETE_COMPLETE
       /\ status_reason[last.cluster] = "cluster deleted"
       /\ last.saves = 1

\* C4: a pass on a cluster in DELETE_IN_PROGRESS that observes ERROR sets
\* DELETE_FAILED with reason "cluster is in error state" and saves once.
C4_DeleteFails ==
    (Pass /\ last.prev = DELETE_IN_PROGRESS /\ last.observed = ERROR)
    => /\ status[last.cluster] = DELETE_FAILED
       /\ status_reason[last.cluster] = "cluster is in error state"
       /\ last.saves = 1

\* the cases in which a pass on an in-progress cluster has nothing to do
Waiting ==
    \/ /\ last.prev \in {CREATE_IN_PROGRESS, UPDATE_IN_PROGRESS}
       /\ last.observed \in {PENDING, NOT_FOUND}
    \/ /\ last.prev = DELETE_IN_PROGRESS
       /\ last.observed = PENDING

\* C5: a pass leaves status and status_reason unchanged and makes no save
\* when a cluster in CREATE_IN_PROGRESS or UPDATE_IN_PROGRESS observes
\* PENDING or NOT_FOUND, and when one in DELETE_IN_PROGRESS observes PENDING.
C5_WaitingUnchanged ==
    (Pass /\ Waiting)
    => /\ status[last.cluster] = last.prev
       /\ status_reason[last.cluster] = last.prev_reason
       /\ last.saves = 0

C5_Witness ==
    /\ Pass /\ last.prev = DELETE_IN_PROGRESS /\ last.observed = PENDING
    /\ last.prev_reason # NoReason
    /\ status[last.cluster] = DELETE_IN_PROGRESS

\* C6: a pass on a cluster whose status is none of the three *_IN_PROGRESS
\* states sets UPDATE_FAILED with reason "unexpected state!" and saves
\* exactly once, whatever it observes.
C6_FallbackFails ==
    (Pass /\ last.prev \notin InProgress /\ last.observed \in ClusterStatus)
    => /\ status[last.cluster] = UPDATE_FAILED
       /\ status_reason[last.cluster] = "unexpected state!"
       /\ last.saves = 1

C6_Witness ==
    /\ Pass /\ last.prev = DELETE_COMPLETE /\ last.observed = READY
    /\ status[last.cluster] = UPDATE_FAILED
    /\ last.saves = 1

\* the state the fallback writes
Unexpected(st, rs) == st = UPDATE_FAILED /\ rs = "unexpected state!"

\* C7 (as claimed): a pass on a cluster in a *_COMPLETE or *_FAILED status
\* leaves status and status_reason unchanged.
C7_TerminalStable ==
    (last.op = "update_cluster_status" /\ last.prev \in Terminal)
    => /\ status[last.cluster] = last.prev
       /\ status_reason[last.cluster] = last.prev_reason

\* C7 (amended): a pass on a cluster in a *_COMPLETE or *_FAILED status
\* leaves the status terminal, and leaves status and status_reason
\* unchanged exactly when the cluster already was UPDATE_FAILED with
\* reason "unexpected state!" or the pass raised before it observed
\* anything.
C7_TerminalFixpoint ==
    (last.op = "update_cluster_status" /\ last.prev \in Terminal)
    => /\ status[last.cluster] \in Terminal
       /\ (/\ status[last.cluster] = last.prev
           /\ status_reason[last.cluster] = last.prev_reason)
          <=> (\/ last.raised # NoException
               \/ Unexpected(last.prev, last.prev_reason))

C7_Witness ==
    /\ Pass /\ Unexpected(last.prev, last.prev_reason)
    /\ Unexpected(status[last.cluster], status_reason[last.cluster])
    /\ last.saves = 1

(* ---------------------------------------------------------------------- *)
(* Properties of the inspector and of the lifecycle operations             *)
(* ---------------------------------------------------------------------- *)

\* C8: when the query tool exits with code 1 and a "not found" marker, the
\* pass does not raise and the observed state is NOT_FOUND.
C8_NotFoundIsAbsence ==
    (last.op = "update_cluster_status" /\ last.tool = "not found")
    => /\ last.raised = NoException
       /\ last.observed = NOT_FOUND

\* C9: delete_cluster on a cluster whose external resource is already
\* absent does not raise (rendering and the tool itself working), and the
\* removal command is issued with ignore-not-found enabled.
C9_DeleteIdempotent ==
    (/\ last.op = "delete_cluster" /\ last.found = "absent"
     /\ last.tool \in {"ok", "not found"})
    => /\ last.raised = NoException
       /\ delete_resources_flag = TRUE

\* C10: every call of an unsupported operation raises an error to the
\* caller, upgrade_cluster a NotImplementedError.
C10_UnsupportedRaises ==
    (last.op \in UnsupportedOps)
    => /\ last.raised # NoException
       /\ (last.op = "upgrade_cluster"
           => last.raised = NotImplementedErrorExc)

(* ---------------------------------------------------------------------- *)
(* Persistence and error absorption of the reconciler                      *)
(* ---------------------------------------------------------------------- *)

\* the last call was a pass that changed the status of its cluster
StatusChanged ==
    last.op = "update_cluster_status" /\ status[last.cluster] # last.prev

\* C11 (as claimed): in every pass save is called exactly once when the
\* pass changed the status and not at all when it left the status
\* unchanged.
C11_SaveIffChanged ==
    (last.op = "update_cluster_status")
    => last.saves = (IF StatusChanged THEN 1 ELSE 0)

\* C11 (amended): in every pass save is called exactly once when the pass
\* changed the status or ran the fallback on a cluster that already was
\* UPDATE_FAILED, and not at all otherwise; a pass without a save leaves
\* status and status_reason unchanged.
C11_SaveIffWritten ==
    (last.op = "update_cluster_status")
    => /\ last.saves =
              (IF StatusChanged \/ (Pass /\ last.prev = UPDATE_FAILED)
               THEN 1 ELSE 0)
       /\ (last.saves = 0
           => /\ status[last.cluster] = last.prev
              /\ status_reason[last.cluster] = last.prev_reason)

C11_Witness ==
    /\ Pass /\ last.prev = UPDATE_FAILED
    /\ last.prev_reason = "cluster is in error state"
    /\ status[last.cluster] = UPDATE_FAILED
    /\ last.saves = 1

\* C12: a pass whose inspection of the external resource fails with a tool
\* error does not raise, and for a cluster in CREATE_IN_PROGRESS it ends
\* with CREATE_FAILED and reason "cluster is in error state".
C12_ToolErrorAbsorbed ==
    (last.op = "update_cluster_status" /\ last.tool = "failure")
    => /\ last.raised = NoException
       /\ (last.prev = CREATE_IN_PROGRESS
           => /\ status[last.cluster] = CREATE_FAILED
              /\ status_reason[last.cluster] = "cluster is in error state")

(* ---------------------------------------------------------------------- *)
(* Properties of the lifecycle operations                                  *)
(* ---------------------------------------------------------------------- *)

\* the text fed to the command is the rendering with the cluster template:
\* template document, separator, document of cluster c
WithTemplate(stdin, c) ==
    /\ Len(stdin) = 3
    /\ stdin[1] = render_template(ClusterTemplate)
    /\ stdin[2] = Separator
    /\ stdin[3].doc = "cluster" /\ stdin[3].name = c
    /\ stdin[3].spec \in Specs

\* the text fed to the command is the document of cluster c alone
ClusterOnly(stdin, c) ==
    /\ Len(stdin) = 1
    /\ stdin[1].doc = "cluster" /\ stdin[1].name = c
    /\ stdin[1].spec \in Specs

\* C13: create_cluster clears stack_id, renders from the cluster with its
\* template and feeds the rendering to exactly one external command (when
\* rendering works); it returns without recording completion: status and
\* status_reason are as before, save is not called, and a resource it has
\* just created has no status yet.
C13_CreateSubmitsOnce ==
    (last.op = "create_cluster")
    => /\ stack_id[last.cluster] = "None"
       /\ status[last.cluster] = last.prev
       /\ status_reason[last.cluster] = last.prev_reason
       /\ last.saves = 0
       /\ (last.raised # TemplateError
           => /\ last.commands = 1
              /\ WithTemplate(last.stdin, last.cluster))
       /\ (last.raised = NoException
           => /\ external[last.cluster] # Absent
              /\ external[last.cluster].spec = last.stdin[3].spec
              /\ (last.found = "absent"
                  => external[last.cluster].phase = NoStatus))

C13_Witness ==
    /\ last.op = "create_cluster" /\ last.raised = NoException
    /\ last.prev = CREATE_IN_PROGRESS /\ last.found = "absent"
    /\ status[last.cluster] = CREATE_IN_PROGRESS
    /\ last.commands = 1
    /\ external[last.cluster].phase = NoStatus

\* C14: delete_cluster renders from the cluster alone, without the cluster
\* template, and issues exactly one removal command for that cluster (when
\* rendering works); when the command succeeds the resource is gone.
C14_DeleteWithoutTemplate ==
    (last.op = "delete_cluster")
    => /\ (last.raised # TemplateError
           => /\ last.commands = 1
              /\ ClusterOnly(last.stdin, last.cluster))
       /\ (last.raised = NoException => external[last.cluster] = Absent)

C14_Witness ==
    /\ last.op = "delete_cluster" /\ last.raised = NoException
    /\ last.found = "present" /\ last.commands = 1
    /\ ClusterOnly(last.stdin, last.cluster)
    /\ external[last.cluster] = Absent

LifecycleOps == {"create_cluster", "update_cluster", "delete_cluster"}

\* C17: in create_cluster, update_cluster and delete_cluster a rendering
\* failure reaches the caller as it is and no external command is run; a
\* failing external command reaches the caller as the executor's error
\* after exactly one attempt; the call returns normally only when the
\* command succeeded.
C17_ErrorsPropagate ==
    (last.op \in LifecycleOps)
    => /\ (last.tool = "-"
           => last.raised = TemplateError /\ last.commands = 0)
       /\ (last.raised = TemplateError => last.commands = 0)
       /\ (last.tool \in {"failure", "not found"}
           => last.raised = ProcessExecutionError /\ last.commands = 1)
       /\ (last.raised = NoException => last.tool = "ok")
       /\ (last.raised # NoException /\ last.found = "absent"
           => external[last.cluster] = Absent)

C17_Witness ==
    /\ last.op = "update_cluster" /\ last.tool = "failure"
    /\ last.raised = ProcessExecutionError /\ last.commands = 1

Fetched == external[last.cluster]

HasPhase(res) == res # Absent /\ res.phase \notin {NoStatus, NoPhase, ""}

\* the operator has recorded the current spec of the resource as handled
Handled(res) ==
    res # Absent /\ res.annotation = json_dumps(res.spec)

\* C19: a pass that fetches a resource with a phase whose last-handled
\* annotation is absent or differs from its spec observes PENDING whatever
\* the phase; so a cluster in UPDATE_IN_PROGRESS stays as it is, without a
\* save, as long as the operator has not recorded the applied spec.
C19_StaleIsPending ==
    (last.op = "update_cluster_status"
        /\ HasPhase(Fetched) /\ ~Handled(Fetched))
    => /\ (Pass => last.observed = PENDING)
       /\ (last.prev = UPDATE_IN_PROGRESS
           => /\ status[last.cluster] = UPDATE_IN_PROGRESS
              /\ status_reason[last.cluster] = last.prev_reason
              /\ last.saves = 0)

C19_Witness ==
    /\ Pass /\ last.prev = UPDATE_IN_PROGRESS
    /\ Fetched # Absent /\ Fetched.phase = "Ready"
    /\ Fetched.annotation = json_dumps(1) /\ Fetched.spec = 2
    /\ last.observed = PENDING
    /\ status[last.cluster] = UPDATE_IN_PROGRESS

\* the observed state the claim gives for each phase
PhaseMapping(phase) ==
    CASE phase = "Ready" -> READY
      [] phase \in {"Failed", "Unhealthy"} -> ERROR
      [] OTHER -> PENDING

\* C20: a pass that fetches a resource whose last-handled annotation
\* matches its spec observes READY for phase "Ready", ERROR for "Failed" and
\* "Unhealthy", and PENDING for every other non-empty phase.
C20_PhaseMapping ==
    (Pass /\ HasPhase(Fetched) /\ Handled(Fetched))
    => last.observed = PhaseMapping(Fetched.phase)

C20_Witness ==
    /\ Pass /\ Handled(Fetched) /\ Fetched.phase = "Unhealthy"
    /\ last.observed = ERROR

(* ---------------------------------------------------------------------- *)
(* Progress under the scheduler's sweeps                                   *)
(* ---------------------------------------------------------------------- *)

\* create_cluster has just returned for cluster c in CREATE_IN_PROGRESS
Created(c) ==
    /\ last.op = "create_cluster" /\ last.cluster = c
    /\ last.raised = NoException
    /\ status[c] = CREATE_IN_PROGRESS

\* the resource of c is in phase "Ready" with its spec recorded as handled
ReadyHandled(c) ==
    /\ external[c] # Absent
    /\ external[c].phase = "Ready"
    /\ Handled(external[c])

\* the resource of c is in an error phase with its spec recorded as handled
ErrorHandled(c) ==
    /\ external[c] # Absent
    /\ external[c].phase \in {"Failed", "Unhealthy"}
    /\ Handled(external[c])

\* the query tool answers the pass / reports the resource as not found
Answered == last.op = "update_cluster_status" => last.tool = "ok"
NotFoundReported ==
    last.op = "update_cluster_status" => last.tool = "not found"

\* the caller does not re-arm the status
NoRearm == last.op # "conductor_set_status"

\* C15 (as claimed): a cluster put in CREATE_IN_PROGRESS by create_cluster
\* eventually reaches CREATE_COMPLETE if its resource eventually becomes
\* and then stays "Ready" with the annotation matching the spec (the query
\* tool answering every pass and the caller not re-arming the status).
C15_EventuallyComplete ==
    \A c \in Swept :
        []((Created(c) /\ <>[]ReadyHandled(c) /\ [](Answered /\ NoRearm))
            => <>(status[c] = CREATE_COMPLETE))

\* C15 (amended): the same, provided the resource is never in phase
\* "Failed" or "Unhealthy" with a matching annotation on the way.
C15_CompleteUnlessError ==
    \A c \in Swept :
        []((/\ Created(c)
            /\ <>[]ReadyHandled(c)
            /\ [](Answered /\ NoRearm /\ ~ErrorHandled(c)))
            => <>(status[c] = CREATE_COMPLETE))

C15_Witness ==
    /\ Pass /\ last.prev = CREATE_IN_PROGRESS /\ last.tool = "ok"
    /\ ReadyHandled(last.cluster)
    /\ stack_id[last.cluster] = "None"
    /\ status[last.cluster] = CREATE_COMPLETE

\* C16: a cluster in DELETE_IN_PROGRESS whose resource is gone, the query
\* tool reporting it as not found at every pass from then on (and the
\* caller not re-arming the status), eventually reaches DELETE_COMPLETE.
C16_EventuallyDeleted ==
    \A c \in Swept :
        []((/\ status[c] = DELETE_IN_PROGRESS
            /\ [](external[c] = Absent /\ NotFoundReported /\ NoRearm))
            => <>(status[c] = DELETE_COMPLETE))

(* ---------------------------------------------------------------------- *)
(* Absence and missing phase in the inspector                              *)
(* ---------------------------------------------------------------------- *)

\* the document _get_resource returned to a pass that did not raise: the
\* resource when it exists, the empty document when it does not
Returned ==
    IF last.found = "absent" THEN EmptyDoc ELSE external[last.cluster]

\* the returned object has no status.phase: no status, no phase, or ""
NoPhaseYet(doc) == doc # EmptyDoc /\ doc.phase \in {NoStatus, NoPhase, ""}

\* C21: a pass observes NOT_FOUND exactly when the inspector returned no
\* object, and observes PENDING when the returned object has no
\* status.phase (missing status, missing phase or empty phase), whatever
\* its annotation and spec.
C21_AbsentOrNoPhase ==
    Pass
    => /\ (last.observed = NOT_FOUND <=> Returned = EmptyDoc)
       /\ (NoPhaseYet(Returned) => last.observed = PENDING)

C21_Witness ==
    /\ Pass /\ last.found = "present"
    /\ Returned.phase = NoPhase /\ Handled(Returned)
    /\ last.observed = PENDING

(* ---------------------------------------------------------------------- *)
(* Order of the rendered documents                                         *)
(* ---------------------------------------------------------------------- *)

\* C22: the rendering made with a cluster template (create_cluster,
\* update_cluster) is the template document, then the newline separator,
\* then the cluster document; the rendering made without one
\* (delete_cluster) is the cluster document alone, with no template
\* document and no leading separator.
C22_TemplateThenCluster ==
    (last.op \in LifecycleOps /\ last.commands = 1)
    => \E spec \in Specs :
           LET cluster_doc == render_cluster(last.cluster, spec)
           IN IF last.op \in {"create_cluster", "update_cluster"}
              THEN last.stdin = <<render_template(ClusterTemplate),
                                  Separator, cluster_doc>>
              ELSE /\ last.stdin = <<cluster_doc>>
                   /\ \A i \in 1..Len(last.stdin) :
                          /\ last.stdin[i] # Separator
                          /\ last.stdin[i].doc # "clustertemplate"

C22_Witness ==
    /\ last.op = "update_cluster" /\ last.commands = 1
    /\ Len(last.stdin) = 3
    /\ last.stdin[1].doc = "clustertemplate"
    /\ last.stdin[2] = Separator
    /\ last.stdin[3] = render_cluster(last.cluster, 2)

(* ---------------------------------------------------------------------- *)
(* Calls running in parallel on distinct clusters                          *)
(* ---------------------------------------------------------------------- *)

\* The scheduler runs at most one call per cluster, and calls on distinct
\* clusters in parallel: the calls are taken apart into their steps, and
\* the steps of the calls on different clusters interleave.  last[c] is the
\* call on cluster c: op, the position pc in its code ("done" when no call
\* is running), the locals previous_state and k8s_status, the status_reason
\* it started with, the calls of save() and the exception raised.  Of a
\* call that has ended, the calls of save() and the exception are kept.

\* the phases the operator reports, and the configuration, in ParSpec
ParPhases == {"Ready", "Failed"}
ParConfig == 1

NoRunning ==
    [op |-> "none", pc |-> "done", previous_state |-> "-",
     prev_reason |-> "-", k8s_status |-> "-", saves |-> 0,
     raised |-> NoException]

\* a call of op starts on cluster c, which has no call running
Begin(op, c) ==
    [op |-> op, pc |-> "begin", previous_state |-> status[c],
     prev_reason |-> status_reason[c], k8s_status |-> "-", saves |-> 0,
     raised |-> NoException]

\* the call on c moves to pc / ends with an exception
Goto(c, pc) == [last EXCEPT ![c].pc = pc]
End(c, saves, exc) ==
    [last EXCEPT ![c] = [NoRunning EXCEPT !.saves = saves, !.raised = exc]]

\* every cluster has been armed with an *_IN_PROGRESS status by the caller
ParInit ==
    /\ status \in [Clusters -> InProgress]
    /\ status_reason = [c \in Clusters |-> NoReason]
    /\ stack_id = [c \in Clusters |-> "stack"]
    /\ external = [c \in Clusters |-> Absent]
    /\ last = [c \in Clusters |-> NoRunning]

\* previous_state = cluster.status
update_cluster_status_read(c) ==
    /\ last[c].pc = "done"
    /\ last' = [last EXCEPT ![c] = [Begin("update_cluster_status", c)
                                       EXCEPT !.pc = "read"]]
    /\ UNCHANGED <<status, status_reason, stack_id, external>>

\* k8s_status = self._get_cluster_status(cluster)
update_cluster_status_fetch(c) ==
    /\ last[c].op = "update_cluster_status" /\ last[c].pc = "read"
    /\ \E result \in kubectl_get(external[c]) :
           last' = IF get_resource_raises(result)
                   THEN End(c, 0, ProcessExecutionError)
                   ELSE [last EXCEPT
                            ![c].pc = "fetched",
                            ![c].k8s_status =
                                get_cluster_status(result.stdout)]
    /\ UNCHANGED <<status, status_reason, stack_id, external>>

update_cluster_status_write_all(c) ==
    /\ last[c].op = "update_cluster_status" /\ last[c].pc = "fetched"
    /\ LET r == reconcile(last[c].previous_state, status_reason[c],
                          last[c].k8s_status)
       IN /\ status' = [b \in Clusters |-> r.status]
          /\ status_reason' = [b \in Clusters |-> r.reason]
          /\ last' = End(c, r.saves, NoException)
    /\ UNCHANGED <<stack_id, external>>

\* the branches on previous_state: the writes to the cluster and save()
update_cluster_status_write(c) ==
    /\ last[c].op = "update_cluster_status" /\ last[c].pc = "fetched"
    /\ LET r == reconcile(last[c].previous_state, status_reason[c],
                          last[c].k8s_status)
       IN /\ status' = [status EXCEPT ![c] = r.status]
          /\ status_reason' = [status_reason EXCEPT ![c] = r.reason]
          /\ last' = End(c, r.saves, NoException)
    /\ UNCHANGED <<stack_id, external>>

\* create_cluster up to cluster.stack_id = None
create_cluster_begin(c) ==
    /\ last[c].pc = "done"
    /\ stack_id' = [stack_id EXCEPT ![c] = "None"]
    /\ last' = [last EXCEPT ![c] = Begin("create_cluster", c)]
    /\ UNCHANGED <<status, status_reason, external>>

update_cluster_begin(c) ==
    /\ last[c].pc = "done"
    /\ last' = [last EXCEPT ![c] = Begin("update_cluster", c)]
    /\ UNCHANGED <<status, status_reason, stack_id, external>>

delete_cluster_begin(c) ==
    /\ last[c].pc = "done"
    /\ last' = [last EXCEPT ![c] = Begin("delete_cluster", c)]
    /\ UNCHANGED <<status, status_reason, stack_id, external>>

\* resources = self._generate_resources(...): jinja2 renders or raises
generate_resources_step(c) ==
    /\ last[c].op \in {"create_cluster", "update_cluster", "delete_cluster"}
    /\ last[c].pc = "begin"
    /\ \E render_ok \in BOOLEAN :
           last' = IF render_ok THEN Goto(c, "rendered")
                   ELSE End(c, 0, TemplateError)
    /\ UNCHANGED <<status, status_reason, stack_id, external>>

\* self._apply_resources(resources)
apply_resources_step(c) ==
    /\ last[c].op \in {"create_cluster", "update_cluster"}
    /\ last[c].pc = "rendered"
    /\ \E result \in kubectl_apply(external[c]) :
           IF execute_raises(result)
           THEN /\ last' = End(c, 0, ProcessExecutionError)
                /\ UNCHANGED external
           ELSE /\ last' = End(c, 0, NoException)
                /\ external' = [external EXCEPT
                                   ![c] = applied(external[c], ParConfig)]
    /\ UNCHANGED <<status, status_reason, stack_id>>

\* self._delete_resources(resources)
delete_resources_step(c) ==
    /\ last[c].op = "delete_cluster" /\ last[c].pc = "rendered"
    /\ \E result \in kubectl_delete(external[c], delete_resources_flag) :
           IF execute_raises(result)
           THEN /\ last' = End(c, 0, ProcessExecutionError)
                /\ UNCHANGED external
           ELSE /\ last' = End(c, 0, NoException)
                /\ external' = [external EXCEPT ![c] = Absent]
    /\ UNCHANGED <<status, status_reason, stack_id>>

\* the operator handles the resource of c and reports a phase
operator_reports(c) ==
    /\ external[c] # Absent
    /\ \E p \in ParPhases :
           external' = [external EXCEPT
                           ![c] = [kind |-> "cluster", phase |-> p,
                                   spec |-> external[c].spec,
                                   annotation |->
                                       json_dumps(external[c].spec)]]
    /\ UNCHANGED <<status, status_reason, stack_id, last>>

ParNext ==
    \/ \E c \in Clusters : update_cluster_status_read(c)
    \/ \E c \in Clusters : update_cluster_status_fetch(c)
    \/ \E c \in Clusters : update_cluster_status_write(c)
    \/ \E c \in Clusters : create_cluster_begin(c)
    \/ \E c \in Clusters : update_cluster_begin(c)
    \/ \E c \in Clusters : delete_cluster_begin(c)
    \/ \E c \in Clusters : generate_resources_step(c)
    \/ \E c \in Clusters : apply_resources_step(c)
    \/ \E c \in Clusters : delete_resources_step(c)
    \/ \E c \in Clusters : operator_reports(c)

ParSpec == ParInit /\ [][ParNext]_vars

\* the step is a step of the call on cluster c
StepOf(c) == last'[c] # last[c]

\* C23: whatever the interleaving of the calls on distinct clusters, a step
\* of the call on a cluster leaves every other cluster alone (its status,
\* status_reason, stack_id, external resource, and its own call with its
\* count of save()); a running call finds its cluster's status and
\* status_reason as it read them; and the writes of a pass are the ones the
\* pass makes on the cluster's current state when it runs alone.
C23_DistinctClustersIsolated ==
    [][\A c \in Clusters :
          StepOf(c)
          => /\ \A b \in Clusters \ {c} :
                    /\ status'[b] = status[b]
                    /\ status_reason'[b] = status_reason[b]
                    /\ stack_id'[b] = stack_id[b]
                    /\ external'[b] = external[b]
                    /\ last'[b] = last[b]
             /\ (last'[c].pc # "done"
                 => /\ status'[c] = last'[c].previous_state
                    /\ status_reason'[c] = last'[c].prev_reason)
             /\ (last[c].pc = "fetched"
                 => LET r == reconcile(status[c], status_reason[c],
                                       last[c].k8s_status)
                    IN /\ status'[c] = r.status
                       /\ status_reason'[c] = r.reason
                       /\ last'[c].saves = r.saves)
             /\ (last[c].pc # "fetched"
                 => /\ status'[c] = status[c]
                    /\ status_reason'[c] = status_reason[c])]_vars

C23_Witness ==
    /\ last["A"].op = "update_cluster_status" /\ last["A"].pc = "fetched"
    /\ last["A"].k8s_status = READY
    /\ last["B"].op = "delete_cluster" /\ last["B"].pc = "rendered"
    /\ status["A"] = CREATE_IN_PROGRESS /\ status["B"] = DELETE_IN_PROGRESS
    /\ external["A"] # Absent /\ external["B"] # Absent

(* ---------------------------------------------------------------------- *)
(* Closure properties of the reconciler                                    *)
(* ---------------------------------------------------------------------- *)

\* the statuses of the operation family of an *_IN_PROGRESS status
FamilyOf(s) == {s, CompleteOf(s), FailedOf(s)}

\* C24: a pass started with status X_IN_PROGRESS, X one of CREATE, UPDATE
\* and DELETE, ends with X_IN_PROGRESS, X_COMPLETE or X_FAILED, whatever
\* it observes.
C24_FamilyClosed ==
    (last.op = "update_cluster_status" /\ last.prev \in InProgress)
    => status[last.cluster] \in FamilyOf(last.prev)

\* C25: create_cluster, update_cluster and delete_cluster leave status and
\* status_reason of every cluster as they are and do not call save,
\* whether they return or raise; of the cluster's fields they write only
\* stack_id, set to None by create_cluster; and among the driver's
\* operations only update_cluster_status changes status or status_reason.
C25_LifecycleFrame ==
    [][/\ (last'.op \in LifecycleOps)
          => /\ status' = status
             /\ status_reason' = status_reason
             /\ last'.saves = 0
             /\ stack_id' = IF last'.op = "create_cluster"
                            THEN [stack_id EXCEPT ![last'.cluster] = "None"]
                            ELSE stack_id
       /\ (status' # status \/ status_reason' # status_reason)
          => last'.op \in {"update_cluster_status", "conductor_set_status"}
       /\ (last'.op # "update_cluster_status") => last'.saves = 0]_vars

C25_Witness ==
    /\ last.op = "delete_cluster" /\ last.raised = NoException
    /\ last.prev = DELETE_IN_PROGRESS /\ last.prev_reason # NoReason
    /\ status[last.cluster] = DELETE_IN_PROGRESS
    /\ status_reason[last.cluster] = last.prev_reason
    /\ stack_id[last.cluster] = "stack"
    /\ external[last.cluster] = Absent

\* the step is a pass on cluster c that returned
ReturnedPass(c) ==
    /\ last'.op = "update_cluster_status" /\ last'.cluster = c
    /\ last'.raised = NoException

\* C26: from UPDATE_FAILED, as long as the caller does not re-arm the
\* status, every step keeps the status UPDATE_FAILED; every pass that
\* returns leaves status_reason "unexpected state!"; and once the reason is
\* "unexpected state!" a pass changes neither field, so a second pass gives
\* the state of the first.
C26_UpdateFailedAbsorbing ==
    [][\A c \in Swept :
          (status[c] = UPDATE_FAILED /\ last'.op # "conductor_set_status")
          => /\ status'[c] = UPDATE_FAILED
             /\ (ReturnedPass(c)
                 => status_reason'[c] = "unexpected state!")
             /\ (Unexpected(status[c], status_reason[c])
                 => Unexpected(status'[c], status_reason'[c]))]_vars

C26_Witness ==
    /\ Pass /\ last.prev = UPDATE_FAILED
    /\ last.prev_reason = "unexpected state!"
    /\ last.observed = NOT_FOUND
    /\ status[last.cluster] = UPDATE_FAILED
    /\ status_reason[last.cluster] = "unexpected state!"

(* ---------------------------------------------------------------------- *)
(* ServicesController (magnum/api/controllers/v1/service.py)               *)
(* ---------------------------------------------------------------------- *)

\* The service records live behind objects.Service and the conductor's RPC
\* API: external[i] is the record with identifier i, Absent when there is
\* none.  The cluster records play no part in the requests.

ServiceIdents == {"s1", "s2"}
ServiceNames == {"web", "db"}
ServiceRecord(name) == [kind |-> "service", name |-> name]

\* the id of the manifest in the body of a POST ("" when it has none)
ManifestIds == ServiceNames \cup {""}

OperationNotPermitted == "OperationNotPermitted"
ServiceNotFound == "ServiceNotFound"
InvalidParameterValue == "InvalidParameterValue"
InvalidState == "InvalidState"
PatchError == "PatchError"

ServiceOps == {"get_one", "post", "patch", "delete"}

\* a request: the method, the flag of the controller that received it, the
\* identifier it names, the lookups of a record, the RPC calls and the
\* calls of save() it made, and the exception it raised
Request(op, from_services, ident, lookups, rpcs, saves, raised) ==
    [op |-> op, from_services |-> from_services, ident |-> ident,
     lookups |-> lookups, rpcs |-> rpcs, saves |-> saves, raised |-> raised]

NoRequest == Request("none", FALSE, "-", 0, 0, 0, NoException)

ServiceInit ==
    /\ status = [c \in Clusters |-> CREATE_IN_PROGRESS]
    /\ status_reason = [c \in Clusters |-> NoReason]
    /\ stack_id = [c \in Clusters |-> "stack"]
    /\ external = [i \in ServiceIdents |-> Absent]
    /\ last = NoRequest

\* "if self.from_services: raise exception.OperationNotPermitted"
Rejected(op, ident) ==
    /\ last' = Request(op, TRUE, ident, 0, 0, 0, OperationNotPermitted)
    /\ UNCHANGED external

get_one ==
    \E from_services \in BOOLEAN, service_ident \in ServiceIdents :
        /\ IF from_services
           THEN Rejected("get_one", service_ident)
           ELSE /\ last' = Request("get_one", FALSE, service_ident, 1, 0, 0,
                                   IF external[service_ident] = Absent
                                   THEN ServiceNotFound ELSE NoException)
                /\ UNCHANGED external
        /\ UNCHANGED <<status, status_reason, stack_id>>

\* service_create gives the new record a fresh identifier, or returns None
post ==
    \E from_services \in BOOLEAN, id \in ManifestIds :
        /\ IF from_services
           THEN Rejected("post", "-")
           ELSE IF id = ""
           THEN /\ last' = Request("post", FALSE, "-", 0, 0, 0,
                                   InvalidParameterValue)
                /\ UNCHANGED external
           ELSE \/ /\ last' = Request("post", FALSE, "-", 0, 1, 0,
                                      InvalidState)
                   /\ UNCHANGED external
                \/ \E uuid \in ServiceIdents :
                       /\ external[uuid] = Absent
                       /\ external' = [external EXCEPT
                                          ![uuid] = ServiceRecord(id)]
                       /\ last' = Request("post", FALSE, uuid, 0, 1, 0,
                                          NoException)
        /\ UNCHANGED <<status, status_reason, stack_id>>

patch ==
    \E from_services \in BOOLEAN, service_uuid \in ServiceIdents,
       patch_ok \in BOOLEAN, name \in ServiceNames :
        /\ IF from_services
           THEN Rejected("patch", service_uuid)
           ELSE IF external[service_uuid] = Absent
           THEN /\ last' = Request("patch", FALSE, service_uuid, 1, 0, 0,
                                   ServiceNotFound)
                /\ UNCHANGED external
           ELSE IF ~patch_ok
           THEN /\ last' = Request("patch", FALSE, service_uuid, 1, 0, 0,
                                   PatchError)
                /\ UNCHANGED external
           ELSE /\ external' = [external EXCEPT
                                   ![service_uuid] = ServiceRecord(name)]
                /\ last' = Request("patch", FALSE, service_uuid, 1, 0, 1,
                                   NoException)
        /\ UNCHANGED <<status, status_reason, stack_id>>

delete_checks_after_lookup ==
    \E from_services \in BOOLEAN, service_ident \in ServiceIdents :
        /\ IF external[service_ident] = Absent
           THEN /\ last' = Request("delete", from_services, service_ident,
                                   1, 0, 0, ServiceNotFound)
                /\ UNCHANGED external
           ELSE IF from_services
           THEN /\ last' = Request("delete", TRUE, service_ident, 1, 0, 0,
                                   OperationNotPermitted)
                /\ UNCHANGED external
           ELSE /\ external' = [external EXCEPT ![service_ident] = Absent]
                /\ last' = Request("delete", FALSE, service_ident, 1, 1, 0,
                                   NoException)
        /\ UNCHANGED <<status, status_reason, stack_id>>

delete ==
    \E from_services \in BOOLEAN, service_ident \in ServiceIdents :
        /\ IF from_services
           THEN Rejected("delete", service_ident)
           ELSE IF external[service_ident] = Absent
           THEN /\ last' = Request("delete", FALSE, service_ident, 1, 0, 0,
                                   ServiceNotFound)
                /\ UNCHANGED external
           ELSE /\ external' = [external EXCEPT ![service_ident] = Absent]
                /\ last' = Request("delete", FALSE, service_ident, 1, 1, 0,
                                   NoException)
        /\ UNCHANGED <<status, status_reason, stack_id>>

ServiceNext ==
    \/ get_one
    \/ post
    \/ patch
    \/ delete

ServiceSpec == ServiceInit /\ [][ServiceNext]_vars

\* C27: a get_one, post, patch or delete received with the from_services
\* flag set raises OperationNotPermitted before any lookup, RPC call or
\* save, and leaves every service record as it is: none is created,
\* modified or deleted.
C27_RejectedBeforeAnyEffect ==
    [][(last'.op \in ServiceOps /\ last'.from_services)
       => /\ last'.raised = OperationNotPermitted
          /\ last'.lookups = 0 /\ last'.rpcs = 0 /\ last'.saves = 0
          /\ external' = external]_vars

C27_Witness ==
    /\ last.op = "delete" /\ last.from_services
    /\ last.raised = OperationNotPermitted
    /\ last.lookups = 0 /\ last.rpcs = 0
    /\ external[last.ident] = ServiceRecord("web")
    /\ \E i \in ServiceIdents : external[i] = Absent

====
